---------------------------- MODULE Spec2Model ----------------------------
(***************************************************************************)
(* Model of puzzle/advent_of_code/2015/day19 (string rewriting):           *)
(*   parse_input, apply_transformations, get_possible_next_steps and the   *)
(*   best-first reverse search transformations_to_target.                  *)
(*                                                                         *)
(* A string is a sequence of bytes (72 = 'H', 79 = 'O', 101 = 'e',         *)
(* 32 = ' ', 61 = '=', 62 = '>'), so that Rust's byte-wise ordering of     *)
(* String is the ordering of the model.  Offsets are 0-based as in Rust.   *)
(***************************************************************************)
EXTENDS Integers, Sequences, FiniteSets, TLC

VARIABLES
    transformations,          \* forward index: source |-> <<replacements in insertion order>>
    key_order,                \* the order in which the hash map enumerates its keys
    target_molecule,          \* argument of transformations_to_target
    reverse_transformations,  \* Vec<(to, from)>, sorted by descending len(to)
    heap,                     \* BinaryHeap<Reverse<(len, molecule, path)>>
    seen,                     \* HashSet<String>
    current_molecule,         \* the entry popped last
    current_path,
    rule_index,               \* position of the for loop over reverse_transformations (1-based)
    start_index,              \* the scan cursor of the inner while loop
    pc,                       \* position in transformations_to_target
    result,                   \* the returned path
    elapsed,                  \* start_time.elapsed() > timeout
    expanded,                 \* history: molecules whose expansion has started, in order
    molecule,                 \* argument of get_possible_next_steps
    next_steps,               \* its result
    lines,                    \* argument of parse_input
    parsed,                   \* its result
    tried,                    \* history: the matches tried at the node being expanded, in order
    steps,                    \* the slice of triples handed to apply_transformations
    applied                   \* its result

vars == <<transformations, key_order, target_molecule, reverse_transformations,
          heap, seen, current_molecule, current_path, rule_index, start_index,
          pc, result, elapsed, expanded, molecule, next_steps, lines, parsed,
          tried, steps, applied>>

-----------------------------------------------------------------------------
(* Bounds of the model *)

\* longest target molecule handed to the search
MaxLen == 3
\* largest number of rules drawn from RuleUniverse
MaxRules == 2
\* longest molecule handed to the forward expansion
MaxMolLen == 3
\* largest number of lines handed to parse_input
MaxLines == 4
\* longest molecule handed to apply_transformations, and the largest offset
MaxApplyLen == 2
\* largest number of triples handed to apply_transformations
MaxSteps == 2
\* the search stops growing a molecule past len(target) + MaxGrowth (a rule whose
\* replacement is shorter than its source lets the reverse search grow for ever)
MaxGrowth == 2
\* longest target of the runs of SpecRun
MaxRunLen == 2

-----------------------------------------------------------------------------
(* Strings *)

ELECTRON == <<101>>

DELIMITER == <<32, 61, 62, 32>>

Alphabet == {72, 79, 101}

Min(S) == CHOOSE x \in S : \A y \in S : x <= y

\* s[a..b] of Rust: bytes a .. b-1 (0-based, half open)
Slice(s, a, b) == SubSeq(s, a + 1, b)

\* mutant of Find: the offset within the slice hay[start..] is returned as it
\* is, start_index is not added
Find_relative(hay, pat, start) ==
    LET hits == {i \in start .. (Len(hay) - Len(pat)) : Slice(hay, i, i + Len(pat)) = pat}
    IN  IF hits = {} THEN -1 ELSE Min(hits) - start

\* str::find on hay[start..], returned as an offset into hay; -1 is None.
\* The slice hay[start..] panics when start > len(hay); the search keeps
\* start_index <= len(current_molecule) (part of C8_Outcomes), since no
\* replacement of the model's rules is empty.
Find(hay, pat, start) ==
    LET hits == {i \in start .. (Len(hay) - Len(pat)) : Slice(hay, i, i + Len(pat)) = pat}
    IN  IF hits = {} THEN -1 ELSE Min(hits)

RECURSIVE MatchFrom(_, _, _)
MatchFrom(hay, pat, start) ==
    LET i == Find(hay, pat, start)
    IN  IF i = -1 THEN {}
        ELSE {i} \cup MatchFrom(hay, pat, i + (IF Len(pat) = 0 THEN 1 ELSE Len(pat)))

\* mutant of match_indices: only the first match, as str::find gives it
match_indices_first(hay, pat) ==
    IF Find(hay, pat, 0) = -1 THEN {} ELSE {Find(hay, pat, 0)}

\* str::match_indices: the offsets of the matches, found left to right, each
\* search resuming after the end of the previous match
match_indices(hay, pat) == MatchFrom(hay, pat, 0)

\* String::replace_range(a..b, to)
replace_range(s, a, b, to) == Slice(s, 0, a) \o to \o Slice(s, b, Len(s))

\* Ord for String: byte-wise lexicographic
RECURSIVE StrLess(_, _)
StrLess(a, b) ==
    IF b = <<>> THEN FALSE
    ELSE IF a = <<>> THEN TRUE
    ELSE IF Head(a) # Head(b) THEN Head(a) < Head(b)
    ELSE StrLess(Tail(a), Tail(b))

\* Ord for (usize, String, String)
StepLess(x, y) ==
    \/ x[1] < y[1]
    \/ x[1] = y[1] /\ StrLess(x[2], y[2])
    \/ x[1] = y[1] /\ x[2] = y[2] /\ StrLess(x[3], y[3])

\* Ord for Vec<(usize, String, String)>
RECURSIVE PathLess(_, _)
PathLess(p, q) ==
    IF q = <<>> THEN FALSE
    ELSE IF p = <<>> THEN TRUE
    ELSE IF Head(p) # Head(q) THEN StepLess(Head(p), Head(q))
    ELSE PathLess(Tail(p), Tail(q))

\* Ord for (usize, String, Vec<..>), the heap's key
EntryLess(x, y) ==
    \/ x[1] < y[1]
    \/ x[1] = y[1] /\ StrLess(x[2], y[2])
    \/ x[1] = y[1] /\ x[2] = y[2] /\ PathLess(x[3], y[3])

\* mutant of HeapPop: the entry whose molecule is least byte-wise, whatever its length
HeapPop_bystring(h) ==
    CHOOSE x \in h : \A y \in h \ {x} :
        StrLess(x[2], y[2]) \/ (x[2] = y[2] /\ PathLess(x[3], y[3]))

\* mutant of HeapPop: the greatest entry (a max-heap, Reverse forgotten)
HeapPop_greatest(h) == CHOOSE x \in h : \A y \in h \ {x} : EntryLess(y, x)

\* mutant of HeapPop: among the entries of least length, the greatest molecule
HeapPop_tiegreatest(h) ==
    CHOOSE x \in h : \A y \in h \ {x} :
        x[1] < y[1] \/ (x[1] = y[1] /\ StrLess(y[2], x[2]))

\* BinaryHeap<Reverse<..>>::pop: the least entry.  The heap is a set: a
\* molecule is pushed only when it is not in seen, so no entry is pushed twice.
HeapPop(h) == CHOOSE x \in h : \A y \in h \ {x} : EntryLess(x, y)

\* mutant of Reversed: the path is returned as accumulated
Reversed_forgotten(s) == s

RECURSIVE Reversed(_)
Reversed(s) == IF s = <<>> THEN <<>> ELSE Reversed(Tail(s)) \o <<Head(s)>>

-----------------------------------------------------------------------------
(* The forward index *)

\* mutant of MultiMapOf: insert replaces the value of a key already present,
\* as HashMap::insert does
RECURSIVE MultiMapOf_overwrite(_)
MultiMapOf_overwrite(rules) ==
    IF rules = <<>> THEN <<>>
    ELSE LET m    == MultiMapOf_overwrite(SubSeq(rules, 1, Len(rules) - 1))
             r    == rules[Len(rules)]
             hit  == {k \in 1 .. Len(m) : m[k][1] = r[1]}
         IN  IF hit = {} THEN Append(m, <<r[1], <<r[2]>>>>)
             ELSE [k \in 1 .. Len(m) |->
                     IF k \in hit THEN <<m[k][1], <<r[2]>>>> ELSE m[k]]

\* MultiMap::insert of the pairs of a list, in list order
RECURSIVE MultiMapOf(_)
MultiMapOf(rules) ==
    IF rules = <<>> THEN <<>>
    ELSE LET m    == MultiMapOf(SubSeq(rules, 1, Len(rules) - 1))
             r    == rules[Len(rules)]
             hit  == {k \in 1 .. Len(m) : m[k][1] = r[1]}
         IN  IF hit = {} THEN Append(m, <<r[1], <<r[2]>>>>)
             ELSE [k \in 1 .. Len(m) |->
                     IF k \in hit THEN <<m[k][1], Append(m[k][2], r[2])>> ELSE m[k]]

Keys(m) == {m[k][1] : k \in 1 .. Len(m)}

Values(m, key) == LET k == CHOOSE k \in 1 .. Len(m) : m[k][1] = key IN m[k][2]

\* every order a hash map may enumerate the keys S in
KeyOrders(S) ==
    {p \in [1 .. Cardinality(S) -> S] : \A i, j \in 1 .. Cardinality(S) : p[i] = p[j] => i = j}

\* mutant of flat_iter: the values of a key are enumerated last inserted first
RECURSIVE flat_iter_rev(_, _)
flat_iter_rev(m, order) ==
    IF order = <<>> THEN <<>>
    ELSE LET vs == Values(m, Head(order))
         IN  [k \in 1 .. Len(vs) |-> <<Head(order), vs[Len(vs) + 1 - k]>>]
                 \o flat_iter_rev(m, Tail(order))

\* MultiMap::flat_iter: keys in the hash map's order, values in insertion order
RECURSIVE flat_iter(_, _)
flat_iter(m, order) ==
    IF order = <<>> THEN <<>>
    ELSE LET vs == Values(m, Head(order))
         IN  [k \in 1 .. Len(vs) |-> <<Head(order), vs[k]>>] \o flat_iter(m, Tail(order))

-----------------------------------------------------------------------------
(* apply_transformations *)

Ok(v) == [ok |-> TRUE, val |-> v]
Panic == [ok |-> FALSE, val |-> <<>>]

\* mutant of apply_transformations: the substring at the offset is replaced
\* without being compared with from
RECURSIVE apply_transformations_unchecked(_, _)
apply_transformations_unchecked(ts, mol) ==
    IF ts = <<>> THEN Ok(mol)
    ELSE LET index == ts[1][1]
             from  == ts[1][2]
             to    == ts[1][3]
         IN  IF index + Len(from) > Len(mol) THEN Panic
             ELSE apply_transformations_unchecked(Tail(ts),
                      replace_range(mol, index, index + Len(from), to))

\* mutant of apply_transformations: the last triple of the slice is applied
\* first
RECURSIVE apply_transformations_reversed(_, _)
apply_transformations_reversed(ts, mol) ==
    IF ts = <<>> THEN Ok(mol)
    ELSE LET index == ts[Len(ts)][1]
             from  == ts[Len(ts)][2]
             to    == ts[Len(ts)][3]
         IN  IF index + Len(from) > Len(mol) THEN Panic
             ELSE IF Slice(mol, index, index + Len(from)) # from THEN Panic
             ELSE apply_transformations_reversed(SubSeq(ts, 1, Len(ts) - 1),
                      replace_range(mol, index, index + Len(from), to))

RECURSIVE apply_transformations(_, _)
apply_transformations(ts, mol) ==
    IF ts = <<>> THEN Ok(mol)
    ELSE LET index == ts[1][1]
             from  == ts[1][2]
             to    == ts[1][3]
         IN  IF index + Len(from) > Len(mol) THEN Panic
             ELSE IF Slice(mol, index, index + Len(from)) # from THEN Panic
             ELSE apply_transformations(Tail(ts),
                      replace_range(mol, index, index + Len(from), to))

-----------------------------------------------------------------------------
(* get_possible_next_steps *)

\* mutant of get_possible_next_steps: only the pair enumerated first is applied
get_possible_next_steps_first(m, order, mol) ==
    LET flat == flat_iter(m, order)
    IN  IF flat = <<>> THEN {}
        ELSE { apply_transformations(<< <<i, flat[1][1], flat[1][2]>> >>, mol).val :
                 i \in match_indices(mol, flat[1][1]) }

get_possible_next_steps(m, order, mol) ==
    LET flat == flat_iter(m, order)
    IN  UNION { { apply_transformations(<< <<i, flat[k][1], flat[k][2]>> >>, mol).val :
                    i \in match_indices(mol, flat[k][1]) } : k \in 1 .. Len(flat) }

-----------------------------------------------------------------------------
(* transformations_to_target *)

RECURSIVE ByLenDesc(_, _)
ByLenDesc(s, L) ==
    IF L < 0 THEN <<>>
    ELSE SelectSeq(s, LAMBDA r : Len(r[1]) = L) \o ByLenDesc(s, L - 1)

RECURSIVE ByLenAsc(_, _, _)
ByLenAsc(s, L, top) ==
    IF L > top THEN <<>>
    ELSE SelectSeq(s, LAMBDA r : Len(r[1]) = L) \o ByLenAsc(s, L + 1, top)

\* mutant of sort_by_len_desc: a.len().cmp(&b.len()), shortest key first
sort_by_len_asc(s) ==
    IF s = <<>> THEN <<>>
    ELSE ByLenAsc(s, 0, CHOOSE L \in {Len(s[k][1]) : k \in 1 .. Len(s)} :
                            \A k \in 1 .. Len(s) : Len(s[k][1]) <= L)

\* Vec::sort_by(|(a, _), (b, _)| b.len().cmp(&a.len())): stable, longest key first
sort_by_len_desc(s) ==
    IF s = <<>> THEN <<>>
    ELSE ByLenDesc(s, CHOOSE L \in {Len(s[k][1]) : k \in 1 .. Len(s)} :
                          \A k \in 1 .. Len(s) : Len(s[k][1]) <= L)

\* mutant of ReverseIndex: the pairs are pushed as (from, to), not swapped
ReverseIndex_unswapped(m, order) == sort_by_len_desc(flat_iter(m, order))

\* the (to, from) pairs pushed while iterating the forward index, then sorted
ReverseIndex(m, order) ==
    LET flat == flat_iter(m, order)
    IN  sort_by_len_desc([k \in 1 .. Len(flat) |-> <<flat[k][2], flat[k][1]>>])

\* the panics of transformations_to_target and of apply_transformations
NoSolution == "Failed to find path"
TimedOut == "Timeout of 60 sec reached"
InvalidTransformation == "Invalid transformation encountered"

\* mutants of IsElectron: the goal test never, or always, succeeds
IsElectron_never(m) == FALSE
IsElectron_always(m) == TRUE

\* current_molecule == ELECTRON
IsElectron(m) == m = ELECTRON

\* mutant of next_start: the scan resumes past the whole match
next_start_past_match(actual_index, to) == actual_index + Len(to)

\* "Update start index so we don't loop the same sequence multiple times"
next_start(actual_index, to) == actual_index + 1

\* mutant of seen_contains: the visited set is never consulted
seen_contains_never(s, m) == FALSE

\* seen.contains(&new_molecule)
seen_contains(s, m) == m \in s

\* the state of transformations_to_target when its loop is entered
SearchInit ==
    /\ reverse_transformations = ReverseIndex(transformations, key_order)
    /\ heap = {<<Len(target_molecule), target_molecule, <<>>>>}
    /\ seen = {target_molecule}
    /\ current_molecule = <<>>
    /\ current_path = <<>>
    /\ rule_index = 0
    /\ start_index = 0
    /\ pc = "loop"
    /\ result = <<>>
    /\ elapsed = FALSE
    /\ expanded = <<>>
    /\ tried = <<>>

\* the wall clock passes the budget
Tick ==
    /\ pc \in {"loop", "scan"}
    /\ ~elapsed
    /\ elapsed' = TRUE
    /\ UNCHANGED <<transformations, key_order, target_molecule, reverse_transformations,
                   heap, seen, current_molecule, current_path, rule_index, start_index,
                   pc, result, expanded, molecule, next_steps, lines, parsed,
                   tried, steps, applied>>

\* mutant of PopEmpty: the budget is checked when the frontier is found empty too
PopEmpty_checked ==
    /\ pc = "loop"
    /\ heap = {}
    /\ pc' = IF elapsed THEN TimedOut ELSE NoSolution
    /\ UNCHANGED <<transformations, key_order, target_molecule, reverse_transformations,
                   heap, seen, current_molecule, current_path, rule_index, start_index,
                   result, elapsed, expanded, molecule, next_steps, lines, parsed,
                   tried, steps, applied>>

\* heap.pop() is None: the loop ends and the function panics
PopEmpty ==
    /\ pc = "loop"
    /\ heap = {}
    /\ pc' = NoSolution
    /\ UNCHANGED <<transformations, key_order, target_molecule, reverse_transformations,
                   heap, seen, current_molecule, current_path, rule_index, start_index,
                   result, elapsed, expanded, molecule, next_steps, lines, parsed,
                   tried, steps, applied>>

\* an entry is popped and the budget has elapsed
PopTimeout ==
    /\ pc = "loop"
    /\ heap # {}
    /\ elapsed
    /\ LET top == HeapPop(heap)
       IN  /\ heap' = heap \ {top}
           /\ current_molecule' = top[2]
           /\ current_path' = top[3]
    /\ pc' = TimedOut
    /\ UNCHANGED <<transformations, key_order, target_molecule, reverse_transformations,
                   seen, rule_index, start_index, result, elapsed, expanded,
                   molecule, next_steps, lines, parsed,
                   tried, steps, applied>>

\* the popped molecule is the electron: the reversed path is returned
PopElectron ==
    /\ pc = "loop"
    /\ heap # {}
    /\ ~elapsed
    /\ LET top == HeapPop(heap)
       IN  /\ IsElectron(top[2])
           /\ heap' = heap \ {top}
           /\ current_molecule' = top[2]
           /\ current_path' = top[3]
           /\ result' = Reversed(top[3])
    /\ pc' = "returned"
    /\ UNCHANGED <<transformations, key_order, target_molecule, reverse_transformations,
                   seen, rule_index, start_index, elapsed, expanded,
                   molecule, next_steps, lines, parsed,
                   tried, steps, applied>>

\* the popped molecule is expanded: the for loop starts
PopExpand ==
    /\ pc = "loop"
    /\ heap # {}
    /\ ~elapsed
    /\ LET top == HeapPop(heap)
       IN  /\ ~IsElectron(top[2])
           /\ heap' = heap \ {top}
           /\ current_molecule' = top[2]
           /\ current_path' = top[3]
           /\ expanded' = Append(expanded, top[2])
    /\ tried' = <<>>
    /\ rule_index' = 1
    /\ start_index' = 0
    /\ pc' = "scan"
    /\ UNCHANGED <<transformations, key_order, target_molecule, reverse_transformations,
                   seen, result, elapsed, molecule, next_steps, lines, parsed,
                   steps, applied>>

\* mutant of ScanMatch: the reverse step is applied to current_molecule in place
ScanMatch_inplace ==
    /\ pc = "scan"
    /\ rule_index <= Len(reverse_transformations)
    /\ LET to           == reverse_transformations[rule_index][1]
           from         == reverse_transformations[rule_index][2]
           actual_index == Find(current_molecule, to, start_index)
           outcome      == apply_transformations(<< <<actual_index, to, from>> >>,
                                                 current_molecule)
           new_molecule == outcome.val
           new_path     == Append(current_path, <<actual_index, from, to>>)
       IN  /\ actual_index # -1
           /\ outcome.ok => Len(new_molecule) <= Len(target_molecule) + MaxGrowth
           /\ tried' = Append(tried, <<rule_index, to, from, actual_index>>)
           /\ IF ~outcome.ok
                 THEN /\ pc' = InvalidTransformation
                      /\ UNCHANGED <<seen, heap, start_index, current_molecule>>
                 ELSE /\ pc' = pc
                      /\ IF ~seen_contains(seen, new_molecule)
                            THEN /\ seen' = seen \cup {new_molecule}
                                 /\ heap' = heap \cup
                                        {<<Len(new_molecule), new_molecule, new_path>>}
                            ELSE UNCHANGED <<seen, heap>>
                      /\ start_index' = next_start(actual_index, to)
                      /\ current_molecule' = new_molecule
    /\ UNCHANGED <<transformations, key_order, target_molecule, reverse_transformations,
                   current_path, rule_index, result, elapsed,
                   expanded, molecule, next_steps, lines, parsed,
                   steps, applied>>

\* mutant of ScanMatch: the step is pushed on the path as (index, to, from)
ScanMatch_unswapped ==
    /\ pc = "scan"
    /\ rule_index <= Len(reverse_transformations)
    /\ LET to           == reverse_transformations[rule_index][1]
           from         == reverse_transformations[rule_index][2]
           actual_index == Find(current_molecule, to, start_index)
           outcome      == apply_transformations(<< <<actual_index, to, from>> >>,
                                                 current_molecule)
           new_molecule == outcome.val
           new_path     == Append(current_path, <<actual_index, to, from>>)
       IN  /\ actual_index # -1
           /\ outcome.ok => Len(new_molecule) <= Len(target_molecule) + MaxGrowth
           /\ tried' = Append(tried, <<rule_index, to, from, actual_index>>)
           /\ IF ~outcome.ok
                 THEN /\ pc' = InvalidTransformation
                      /\ UNCHANGED <<seen, heap, start_index>>
                 ELSE /\ pc' = pc
                      /\ IF ~seen_contains(seen, new_molecule)
                            THEN /\ seen' = seen \cup {new_molecule}
                                 /\ heap' = heap \cup
                                        {<<Len(new_molecule), new_molecule, new_path>>}
                            ELSE UNCHANGED <<seen, heap>>
                      /\ start_index' = next_start(actual_index, to)
    /\ UNCHANGED <<transformations, key_order, target_molecule, reverse_transformations,
                   current_molecule, current_path, rule_index, result, elapsed,
                   expanded, molecule, next_steps, lines, parsed,
                   steps, applied>>

\* one iteration of the inner while loop: a match of the rule's key is found
ScanMatch ==
    /\ pc = "scan"
    /\ rule_index <= Len(reverse_transformations)
    /\ LET to           == reverse_transformations[rule_index][1]
           from         == reverse_transformations[rule_index][2]
           actual_index == Find(current_molecule, to, start_index)
           outcome      == apply_transformations(<< <<actual_index, to, from>> >>,
                                                 current_molecule)
           new_molecule == outcome.val
           new_path     == Append(current_path, <<actual_index, from, to>>)
       IN  /\ actual_index # -1
           /\ outcome.ok => Len(new_molecule) <= Len(target_molecule) + MaxGrowth
           /\ tried' = Append(tried, <<rule_index, to, from, actual_index>>)
           /\ IF ~outcome.ok
                 THEN /\ pc' = InvalidTransformation
                      /\ UNCHANGED <<seen, heap, start_index>>
                 ELSE /\ pc' = pc
                      /\ IF ~seen_contains(seen, new_molecule)
                            THEN /\ seen' = seen \cup {new_molecule}
                                 /\ heap' = heap \cup
                                        {<<Len(new_molecule), new_molecule, new_path>>}
                            ELSE UNCHANGED <<seen, heap>>
                      /\ start_index' = next_start(actual_index, to)
    /\ UNCHANGED <<transformations, key_order, target_molecule, reverse_transformations,
                   current_molecule, current_path, rule_index, result, elapsed,
                   expanded, molecule, next_steps, lines, parsed,
                   steps, applied>>

\* mutant of ScanNextRule: the for loop ends with the first rule that matched
ScanNextRule_first ==
    /\ pc = "scan"
    /\ rule_index <= Len(reverse_transformations)
    /\ Find(current_molecule, reverse_transformations[rule_index][1], start_index) = -1
    /\ rule_index' = IF tried # <<>> THEN Len(reverse_transformations) + 1 ELSE rule_index + 1
    /\ start_index' = 0
    /\ UNCHANGED <<transformations, key_order, target_molecule, reverse_transformations,
                   heap, seen, current_molecule, current_path, pc, result, elapsed,
                   expanded, molecule, next_steps, lines, parsed,
                   tried, steps, applied>>

\* the inner while loop ends (find is None): the for loop takes the next rule
ScanNextRule ==
    /\ pc = "scan"
    /\ rule_index <= Len(reverse_transformations)
    /\ Find(current_molecule, reverse_transformations[rule_index][1], start_index) = -1
    /\ rule_index' = rule_index + 1
    /\ start_index' = 0
    /\ UNCHANGED <<transformations, key_order, target_molecule, reverse_transformations,
                   heap, seen, current_molecule, current_path, pc, result, elapsed,
                   expanded, molecule, next_steps, lines, parsed,
                   tried, steps, applied>>

\* mutant of ScanDone: the for loop never hands control back to heap.pop()
ScanDone_stay ==
    /\ pc = "scan"
    /\ rule_index > Len(reverse_transformations)
    /\ pc' = "scan"
    /\ UNCHANGED <<transformations, key_order, target_molecule, reverse_transformations,
                   heap, seen, current_molecule, current_path, rule_index, start_index,
                   result, elapsed, expanded, molecule, next_steps, lines, parsed,
                   tried, steps, applied>>

\* the for loop ends: back to heap.pop()
ScanDone ==
    /\ pc = "scan"
    /\ rule_index > Len(reverse_transformations)
    /\ pc' = "loop"
    /\ UNCHANGED <<transformations, key_order, target_molecule, reverse_transformations,
                   heap, seen, current_molecule, current_path, rule_index, start_index,
                   result, elapsed, expanded, molecule, next_steps, lines, parsed,
                   tried, steps, applied>>

-----------------------------------------------------------------------------
(* parse_input *)

ParsePanic == [ok |-> FALSE, transformations |-> <<>>, molecule |-> <<>>]

\* str::contains
contains(line, pat) == Find(line, pat, 0) # -1

\* str::split_once: the parts before and after the first occurrence of pat
split_once(line, pat) ==
    LET i == Find(line, pat, 0)
    IN  <<Slice(line, 0, i), Slice(line, i + Len(pat), Len(line))>>

\* mutant of parse_loop: the loop goes on after a delimiter-free line, and
\* the last such line is the molecule
RECURSIVE parse_loop_on(_, _)
parse_loop_on(ls, rules) ==
    IF ls = <<>> THEN ParsePanic
    ELSE IF ~contains(Head(ls), DELIMITER)
         THEN LET rest == parse_loop_on(Tail(ls), rules)
              IN  IF rest.ok THEN rest
                  ELSE [ok |-> TRUE, transformations |-> MultiMapOf(rules),
                        molecule |-> Head(ls)]
         ELSE parse_loop_on(Tail(ls), Append(rules, split_once(Head(ls), DELIMITER)))

\* mutant of parse_loop: the end of the input without a molecule returns the
\* index with an empty molecule instead of panicking
RECURSIVE parse_loop_default(_, _)
parse_loop_default(ls, rules) ==
    IF ls = <<>>
    THEN [ok |-> TRUE, transformations |-> MultiMapOf(rules), molecule |-> <<>>]
    ELSE IF ~contains(Head(ls), DELIMITER)
         THEN [ok |-> TRUE, transformations |-> MultiMapOf(rules), molecule |-> Head(ls)]
         ELSE parse_loop_default(Tail(ls), Append(rules, split_once(Head(ls), DELIMITER)))

\* the for loop of parse_input over the non-empty lines; rules holds the pairs
\* inserted so far
RECURSIVE parse_loop(_, _)
parse_loop(ls, rules) ==
    IF ls = <<>> THEN ParsePanic
    ELSE IF ~contains(Head(ls), DELIMITER)
         THEN [ok |-> TRUE, transformations |-> MultiMapOf(rules), molecule |-> Head(ls)]
         ELSE parse_loop(Tail(ls), Append(rules, split_once(Head(ls), DELIMITER)))

\* mutant of parse_input: the empty lines are not filtered out
parse_input_unfiltered(ls) == parse_loop(ls, <<>>)

parse_input(ls) == parse_loop(SelectSeq(ls, LAMBDA line : line # <<>>), <<>>)

-----------------------------------------------------------------------------
(* The inputs of the model *)

\* the rules of the puzzle's example
ExampleRules ==
    << <<<<101>>, <<72>>>>,        \* e => H
       <<<<101>>, <<79>>>>,        \* e => O
       <<<<72>>, <<72, 79>>>>,     \* H => HO
       <<<<72>>, <<79, 72>>>>,     \* H => OH
       <<<<79>>, <<72, 72>>>> >>   \* O => HH

\* further rules: an equal-length rewrite, a second way to the electron
OtherRules ==
    << <<<<72>>, <<79>>>>,         \* H => O
       <<<<101>>, <<72, 79>>>> >>  \* e => HO

RuleUniverse == ExampleRules \o OtherRules

\* e => H, H => OH, O => HH, H => O
EqualLengthRules == << ExampleRules[1], ExampleRules[4], ExampleRules[5], OtherRules[1] >>

\* the rules of tests::test_get_possible_next_steps
TestRules == << ExampleRules[3], ExampleRules[4], ExampleRules[5] >>

\* a rule whose source overlaps itself: HH => O
OverlapRules == << <<<<72, 72>>, <<79>>>> >>

RECURSIVE Pick(_, _)
Pick(u, S) ==
    IF S = {} THEN <<>> ELSE <<u[Min(S)]>> \o Pick(u, S \ {Min(S)})

\* the rule lists the search starts from: the example, the equal-length rules
\* and every list of at most MaxRules rules of the universe
RuleLists ==
    {ExampleRules, EqualLengthRules} \cup
    {Pick(RuleUniverse, S) :
        S \in {T \in SUBSET (1 .. Len(RuleUniverse)) : Cardinality(T) <= MaxRules}}

Strings(n) == UNION {[1 .. k -> Alphabet] : k \in 1 .. n}

\* the targets of the search: the electron, and the molecules of H and O (no
\* rule produces an e, so no other molecule with an e is ever a target with
\* a solution)
Targets(n) == {ELECTRON} \cup UNION {[1 .. k -> Alphabet \ {101}] : k \in 1 .. n}

HOH == <<72, 79, 72>>
HOHOHO == <<72, 79, 72, 79, 72, 79>>

RuleLine(from, to) == from \o DELIMITER \o to

\* the lines parse_input is run on
LineUniverse ==
    { <<>>, RuleLine(<<101>>, <<72>>), RuleLine(<<72>>, <<72, 79>>),
      RuleLine(<<72>>, <<79, 72>>), RuleLine(<<79>>, <<72, 72>>), HOH, <<79>> }

LineLists == UNION {[1 .. k -> LineUniverse] : k \in 0 .. MaxLines}

SearchIdle ==
    /\ target_molecule = <<>>
    /\ reverse_transformations = <<>>
    /\ heap = {}
    /\ seen = {}
    /\ current_molecule = <<>>
    /\ current_path = <<>>
    /\ rule_index = 0
    /\ start_index = 0
    /\ result = <<>>
    /\ elapsed = FALSE
    /\ expanded = <<>>
    /\ tried = <<>>

ApplyIdle ==
    /\ steps = <<>>
    /\ applied = Panic

ExpandIdle ==
    /\ molecule = <<>>
    /\ next_steps = {}

ParseIdle ==
    /\ lines = <<>>
    /\ parsed = ParsePanic

-----------------------------------------------------------------------------
(* Spec: transformations_to_target on a forward index and a target *)

Init ==
    /\ \E rules \in RuleLists : transformations = MultiMapOf(rules)
    /\ key_order \in KeyOrders(Keys(transformations))
    /\ target_molecule \in Targets(MaxLen)
    /\ SearchInit
    /\ ExpandIdle
    /\ ParseIdle
    /\ ApplyIdle

Next ==
    \/ Tick
    \/ PopEmpty
    \/ PopTimeout
    \/ PopElectron
    \/ PopExpand
    \/ ScanMatch
    \/ ScanNextRule
    \/ ScanDone

Spec == Init /\ [][Next]_vars

-----------------------------------------------------------------------------
(* SpecRun: the search left to run within its budget (the clock never passes  *)
(* it), on rule sets with and without rules that shorten a molecule           *)

\* rules that cycle (H => O with O => H) and a rule whose replacement is
\* shorter than its source (OO => O)
RunUniverse ==
    << ExampleRules[2],              \* e => O
       ExampleRules[5],              \* O => HH
       OtherRules[1],                \* H => O
       <<<<79>>, <<72>>>>,           \* O => H
       <<<<79, 79>>, <<79>>>> >>     \* OO => O

\* every list of at most MaxRules of the rules that keep or grow the length,
\* and the shortening rule alone
RunRuleLists ==
    {Pick(RunUniverse, S) :
        S \in {T \in SUBSET (1 .. 4) : Cardinality(T) <= MaxRules}} \cup
    {<<RunUniverse[5]>>}

InitRun ==
    /\ \E rules \in RunRuleLists : transformations = MultiMapOf(rules)
    /\ key_order \in KeyOrders(Keys(transformations))
    /\ target_molecule \in Targets(MaxRunLen)
    /\ SearchInit
    /\ ExpandIdle
    /\ ParseIdle
    /\ ApplyIdle

NextRun ==
    \/ PopEmpty
    \/ PopElectron
    \/ PopExpand
    \/ ScanMatch
    \/ ScanNextRule
    \/ ScanDone

\* the function runs on: a step of the loop that can be taken is taken
SpecRun == InitRun /\ [][NextRun]_vars /\ WF_vars(NextRun)

-----------------------------------------------------------------------------
(* SpecExpand: get_possible_next_steps on a forward index and a molecule *)

InitExpand ==
    /\ \E rules \in RuleLists \cup {TestRules, OverlapRules} :
           transformations = MultiMapOf(rules)
    /\ key_order \in KeyOrders(Keys(transformations))
    /\ molecule \in Strings(MaxMolLen) \cup {HOHOHO}
    /\ next_steps = {}
    /\ pc = "expand"
    /\ SearchIdle
    /\ ParseIdle
    /\ ApplyIdle

Expand ==
    /\ pc = "expand"
    /\ next_steps' = get_possible_next_steps(transformations, key_order, molecule)
    /\ pc' = "expanded"
    /\ UNCHANGED <<transformations, key_order, target_molecule, reverse_transformations,
                   heap, seen, current_molecule, current_path, rule_index, start_index,
                   result, elapsed, expanded, molecule, lines, parsed,
                   tried, steps, applied>>

NextExpand == Expand

SpecExpand == InitExpand /\ [][NextExpand]_vars

-----------------------------------------------------------------------------
(* SpecParse: parse_input on a list of lines *)

InitParse ==
    /\ lines \in LineLists
    /\ parsed = ParsePanic
    /\ pc = "parse"
    /\ transformations = <<>>
    /\ key_order = <<>>
    /\ SearchIdle
    /\ ExpandIdle
    /\ ApplyIdle

Parse ==
    /\ pc = "parse"
    /\ parsed' = parse_input(lines)
    /\ pc' = "parsed"
    /\ UNCHANGED <<transformations, key_order, target_molecule, reverse_transformations,
                   heap, seen, current_molecule, current_path, rule_index, start_index,
                   result, elapsed, expanded, molecule, next_steps, lines,
                   tried, steps, applied>>

NextParse == Parse

SpecParse == InitParse /\ [][NextParse]_vars

-----------------------------------------------------------------------------
(* SpecApply: apply_transformations on a slice of triples and a molecule *)

\* the triples of tests::test_apply_transformations
TestSteps ==
    << <<0, <<101>>, <<79>>>>, <<0, <<79>>, <<72, 72>>>>, <<1, <<72>>, <<79, 72>>>> >>

\* the (from, to) pairs of the triples: e => O, O => HH, H => OH, HH => O
StepRules ==
    { ExampleRules[2], ExampleRules[5], ExampleRules[4], OverlapRules[1] }

Triples == {<<i, r[1], r[2]>> : i \in 0 .. MaxApplyLen, r \in StepRules}

StepLists == {TestSteps} \cup UNION {[1 .. k -> Triples] : k \in 0 .. MaxSteps}

InitApply ==
    /\ steps \in StepLists
    /\ molecule \in Strings(MaxApplyLen)
    /\ applied = Panic
    /\ next_steps = {}
    /\ pc = "apply"
    /\ transformations = <<>>
    /\ key_order = <<>>
    /\ SearchIdle
    /\ ParseIdle

Apply ==
    /\ pc = "apply"
    /\ applied' = apply_transformations(steps, molecule)
    /\ pc' = "applied"
    /\ UNCHANGED <<transformations, key_order, target_molecule, reverse_transformations,
                   heap, seen, current_molecule, current_path, rule_index, start_index,
                   result, elapsed, expanded, molecule, next_steps, lines, parsed,
                   tried, steps>>

NextApply == Apply

SpecApply == InitApply /\ [][NextApply]_vars

-----------------------------------------------------------------------------
(* Reference definitions the claims are stated against *)

\* the (source, replacement) pairs of a forward index, as a set
RuleSet(m) ==
    UNION {{<<m[k][1], m[k][2][j]>> : j \in 1 .. Len(m[k][2])} : k \in 1 .. Len(m)}

\* every offset at which pat occurs in hay, overlapping occurrences included
Occurrences(hay, pat) ==
    {i \in 0 .. (Len(hay) - Len(pat)) : Slice(hay, i, i + Len(pat)) = pat}

\* the molecules one forward step away from mol
ForwardSteps(R, mol) ==
    UNION {{Slice(mol, 0, i) \o r[2] \o Slice(mol, i + Len(r[1]), Len(mol)) :
              i \in Occurrences(mol, r[1])} : r \in R}

\* the molecules one reverse step away from mol
ReverseSteps(R, mol) ==
    UNION {{Slice(mol, 0, i) \o r[1] \o Slice(mol, i + Len(r[2]), Len(mol)) :
              i \in Occurrences(mol, r[2])} : r \in R}

\* breadth-first search, forward from the electron: the number of steps of a
\* shortest path to goal, -1 if there is none.  No rule of the model's
\* universe shortens a molecule, so a molecule longer than goal never leads to it.
RECURSIVE Bfs(_, _, _, _, _)
Bfs(R, frontier, visited, d, goal) ==
    IF goal \in frontier THEN d
    ELSE IF frontier = {} THEN -1
    ELSE LET next == {m \in UNION {ForwardSteps(R, f) : f \in frontier} :
                         Len(m) <= Len(goal)} \ visited
         IN  Bfs(R, next, visited \cup next, d + 1, goal)

MinSteps(R, goal) == Bfs(R, {ELECTRON}, {ELECTRON}, 0, goal)

\* every molecule reachable from those of frontier by reverse steps
RECURSIVE ReverseClosure(_, _, _)
ReverseClosure(R, frontier, visited) ==
    IF frontier = {} THEN visited
    ELSE LET next == UNION {ReverseSteps(R, f) : f \in frontier} \ visited
         IN  ReverseClosure(R, next, visited \cup next)

ReverseReachable(R, mol) == ReverseClosure(R, {mol}, {mol})

\* a step of the search other than the passing of time
SearchStep ==
    PopEmpty \/ PopTimeout \/ PopElectron \/ PopExpand \/ ScanMatch \/ ScanNextRule \/ ScanDone

-----------------------------------------------------------------------------
(* The claims *)

\* C1: round trip.  Applying a returned path, in the returned order, to the
\* electron succeeds at every step and yields exactly the target molecule.
C1_RoundTrip ==
    pc = "returned" => apply_transformations(result, ELECTRON) = Ok(target_molecule)

C1_Witness ==
    /\ pc = "returned"
    /\ Len(result) >= 3
    /\ apply_transformations(result, ELECTRON) = Ok(target_molecule)

\* C2: minimality.  A returned path has the length of a shortest sequence of
\* forward steps from the electron to the target (reference breadth-first search).
C2_Minimal ==
    pc = "returned" => Len(result) = MinSteps(RuleSet(transformations), target_molecule)

\* C3: get_possible_next_steps returns exactly the molecules obtained by
\* replacing one occurrence of a rule's source by its replacement, every
\* occurrence counted, overlapping ones included.
C3_AllOccurrences ==
    pc = "expanded" => next_steps = ForwardSteps(RuleSet(transformations), molecule)

\* C4: with the example rules, the next steps of HOH are exactly HOOH, HOHO,
\* OHOH and HHHH, and HOHOHO has exactly 7 distinct next steps.
C4_Example ==
    (pc = "expanded" /\ RuleSet(transformations) = RuleSet(MultiMapOf(ExampleRules))) =>
        /\ molecule = HOH =>
              next_steps = { <<72, 79, 79, 72>>, <<72, 79, 72, 79>>,
                             <<79, 72, 79, 72>>, <<72, 72, 72, 72>> }
        /\ molecule = HOHOHO => Cardinality(next_steps) = 7

C4_Witness ==
    /\ pc = "expanded"
    /\ transformations = MultiMapOf(ExampleRules)
    /\ molecule = HOHOHO
    /\ Cardinality(next_steps) = 7

\* C5: with the example rules and the target HOH the search returns exactly
\* the path (0, e, O), (0, O, HH), (0, H, HO), in whatever order the forward
\* index enumerates its keys; it fails in no other way than by the timeout.
C5_ExamplePath ==
    (transformations = MultiMapOf(ExampleRules) /\ target_molecule = HOH) =>
        /\ pc \notin {NoSolution, InvalidTransformation}
        /\ pc = "returned" =>
              result = << <<0, <<101>>, <<79>>>>,
                          <<0, <<79>>, <<72, 72>>>>,
                          <<0, <<72>>, <<72, 79>>>> >>

C5_Witness ==
    /\ transformations = MultiMapOf(ExampleRules)
    /\ target_molecule = HOH
    /\ key_order = << <<79>>, <<72>>, <<101>> >>
    /\ pc = "returned"
    /\ Len(result) = 3

\* C6: when the target is the electron, no node is ever expanded and nothing
\* is added to the frontier or to the visited set; the search returns the
\* empty path, unless the budget has elapsed at the first dequeue.
C6_SeedTarget ==
    target_molecule = ELECTRON =>
        /\ expanded = <<>>
        /\ seen = {ELECTRON}
        /\ heap \subseteq {<<1, ELECTRON, <<>>>>}
        /\ pc \in {"loop", "returned", TimedOut}
        /\ pc = "returned" => result = <<>> /\ heap = {}
        /\ pc = TimedOut => elapsed

C6_Witness ==
    /\ target_molecule = ELECTRON
    /\ pc = "returned"
    /\ result = <<>>
    /\ Len(transformations) = 2

\* C7: with no rule and a target other than the electron the search never
\* returns a path; it ends with "no solution found", the frontier empty after
\* the target alone was dequeued, or with the timeout.
C7_EmptyRules ==
    (transformations = <<>> /\ target_molecule # ELECTRON) =>
        /\ pc \in {"loop", "scan", NoSolution, TimedOut}
        /\ pc = NoSolution => expanded = <<target_molecule>> /\ heap = {}
        /\ pc = TimedOut => elapsed
        /\ pc \in {"loop", "scan"} => ENABLED SearchStep

C7_Witness ==
    /\ transformations = <<>>
    /\ target_molecule # ELECTRON
    /\ pc = NoSolution
    /\ ~elapsed

\* C8: a run of the search ends in one of three outcomes and in no other way:
\* a returned path, "no solution found" or "timed out".  "No solution found"
\* is raised only with the frontier empty, "timed out" only with the budget
\* elapsed, just after a dequeue; the two panics differ.  No other panic
\* ends the search: apply_transformations accepts every step of the scan, the
\* slice current_molecule[start_index..] is in range and the pop has a least entry.
C8_Outcomes ==
    /\ pc \in {"loop", "scan", "returned", NoSolution, TimedOut}
    /\ pc = "loop" => heap = {} \/ \E x \in heap : \A y \in heap \ {x} : EntryLess(x, y)
    /\ pc = "scan" => rule_index >= 1 /\ start_index <= Len(current_molecule)
    /\ pc = NoSolution => heap = {}
    /\ pc = TimedOut =>
          /\ elapsed
          /\ current_molecule \in seen
          /\ \A x \in heap : x[2] # current_molecule
    /\ NoSolution # TimedOut

C8_Witness ==
    /\ pc = TimedOut
    /\ Len(expanded) >= 2
    /\ heap # {}

\* C9: "no solution found" is raised only if no sequence of reverse steps
\* leads from the target to the electron.
C9_NoSolutionSound ==
    pc = NoSolution =>
        ELECTRON \notin ReverseReachable(RuleSet(transformations), target_molecule)

C9_Witness ==
    /\ pc = NoSolution
    /\ Len(expanded) >= 3
    /\ \E m \in seen : Len(m) = 1 /\ m # target_molecule

\* C10: the first non-empty line without the delimiter is the target
\* molecule, and parse_input stops there: the index holds the rules of the
\* lines before it and nothing of the lines after it.
C10_StopsAtTarget ==
    pc = "parsed" =>
        LET T == {i \in 1 .. Len(lines) :
                     lines[i] # <<>> /\ Occurrences(lines[i], DELIMITER) = {}}
        IN  T # {} =>
              /\ parsed.ok
              /\ parsed.molecule = lines[Min(T)]
              /\ RuleSet(parsed.transformations) =
                    {split_once(lines[i], DELIMITER) :
                        i \in {j \in 1 .. Min(T) - 1 : lines[j] # <<>>}}

C10_Witness ==
    /\ pc = "parsed"
    /\ Len(lines) = 4
    /\ lines[1] = RuleLine(<<101>>, <<72>>)
    /\ lines[2] = HOH
    /\ lines[3] = RuleLine(<<72>>, <<72, 79>>)
    /\ lines[4] = <<79>>
    /\ parsed.ok
    /\ parsed.molecule = HOH

\* the indices of the lines that are neither empty nor rule lines
TargetLines(ls) ==
    {i \in 1 .. Len(ls) : ls[i] # <<>> /\ Occurrences(ls[i], DELIMITER) = {}}

\* the non-empty lines before the first target line (all of them if there is none)
RuleLinesOf(ls) ==
    LET T == TargetLines(ls)
        n == IF T = {} THEN Len(ls) ELSE Min(T) - 1
    IN  SelectSeq(SubSeq(ls, 1, n), LAMBDA l : l # <<>>)

\* C11: parse_input panics, returning neither index nor molecule, whenever
\* the input has no target line: it is empty, or each of its non-empty lines
\* contains the delimiter.
C11_NoTargetPanics ==
    (pc = "parsed" /\ TargetLines(lines) = {}) =>
        /\ ~parsed.ok
        /\ parsed.transformations = <<>>
        /\ parsed.molecule = <<>>

C11_Witness ==
    /\ pc = "parsed"
    /\ lines = << RuleLine(<<101>>, <<72>>), <<>>, RuleLine(<<72>>, <<72, 79>>) >>
    /\ ~parsed.ok

\* C12: the forward index holds exactly the pairs of the rule lines before
\* the target: each key occurs once, the values of a key are the replacements
\* of the rule lines with that source, one per line and in line order, and
\* every rule line's source is a key.
C12_ExactPairs ==
    (pc = "parsed" /\ parsed.ok) =>
        LET m  == parsed.transformations
            rl == RuleLinesOf(lines)
            Of(key) == SelectSeq(rl, LAMBDA l :
                          /\ Len(l) >= Len(key) + Len(DELIMITER)
                          /\ SubSeq(l, 1, Len(key) + Len(DELIMITER)) = key \o DELIMITER)
        IN  /\ \A a, b \in 1 .. Len(m) : m[a][1] = m[b][1] => a = b
            /\ \A k \in 1 .. Len(m) :
                  /\ m[k][2] # <<>>
                  /\ [j \in 1 .. Len(m[k][2]) |-> m[k][1] \o DELIMITER \o m[k][2][j]]
                        = Of(m[k][1])
            /\ \A i \in 1 .. Len(rl) : \E k \in 1 .. Len(m) : rl[i] \in
                  {m[k][1] \o DELIMITER \o m[k][2][j] : j \in 1 .. Len(m[k][2])}

C12_Witness ==
    /\ pc = "parsed"
    /\ lines = << RuleLine(<<101>>, <<72>>), RuleLine(<<72>>, <<72, 79>>),
                  RuleLine(<<72>>, <<79, 72>>), HOH >>
    /\ parsed.ok
    /\ \E k \in 1 .. Len(parsed.transformations) :
          parsed.transformations[k] = << <<72>>, << <<72, 79>>, <<79, 72>> >> >>

\* the number of (source, replacement) pairs of a forward index
RECURSIVE PairCount(_)
PairCount(m) == IF m = <<>> THEN 0 ELSE Len(Head(m)[2]) + PairCount(Tail(m))

\* C13: empty lines before the target are skipped: an empty line is never
\* the molecule and adds no rule, so the molecule is the first non-empty
\* delimiter-free line and the index has one pair per non-empty line before it.
C13_EmptyLinesSkipped ==
    pc = "parsed" =>
        /\ parsed.ok => parsed.molecule # <<>>
        /\ TargetLines(lines) # {} =>
              /\ parsed.ok
              /\ parsed.molecule = lines[Min(TargetLines(lines))]
              /\ PairCount(parsed.transformations) =
                    Cardinality({i \in 1 .. Min(TargetLines(lines)) - 1 : lines[i] # <<>>})

C13_Witness ==
    /\ pc = "parsed"
    /\ lines = << RuleLine(<<72>>, <<72, 79>>), RuleLine(<<72>>, <<79, 72>>), <<>>, HOH >>
    /\ parsed.ok
    /\ parsed.molecule = HOH
    /\ PairCount(parsed.transformations) = 2

\* C14: parsing the same text twice gives the same reverse index, the same
\* list of (replacement, source) pairs in the same order, whatever order
\* each of the two forward indices enumerates its keys in.
C14_Idempotent ==
    (pc = "parsed" /\ parsed.ok) =>
        \A o1, o2 \in KeyOrders(Keys(parsed.transformations)) :
            ReverseIndex(parsed.transformations, o1) = ReverseIndex(parsed.transformations, o2)

\* the set of the elements of a sequence
Range(q) == {q[k] : k \in 1 .. Len(q)}

\* C15: the reverse index is the rules, each swapped to (replacement,
\* source), in non-increasing length of the replacement; and at a node, when
\* a match of a rule is tried, every occurrence of every strictly longer
\* replacement has been tried before.
C15_LongestFirst ==
    LET rt == reverse_transformations
    IN  pc \in {"loop", "scan", "returned", NoSolution, TimedOut} =>
        /\ Len(rt) = PairCount(transformations)
        /\ {<<rt[k][2], rt[k][1]>> : k \in 1 .. Len(rt)} = RuleSet(transformations)
        /\ \A i, j \in 1 .. Len(rt) : i < j => Len(rt[i][1]) >= Len(rt[j][1])
        /\ \A b \in 1 .. Len(tried) : \A a \in 1 .. Len(rt) :
              Len(rt[a][1]) > Len(tried[b][2]) =>
                  \A off \in Occurrences(expanded[Len(expanded)], rt[a][1]) :
                      \E c \in 1 .. (b - 1) : tried[c] = <<a, rt[a][1], rt[a][2], off>>

C15_Witness ==
    /\ pc = "scan"
    /\ \E b, c \in 1 .. Len(tried) : c < b /\ Len(tried[c][2]) > Len(tried[b][2])
    /\ \E i, j \in 1 .. Len(reverse_transformations) :
          /\ i < j
          /\ Len(reverse_transformations[i][1]) = Len(reverse_transformations[j][1])

\* the molecule apply_transformations returns for one triple t, when the
\* bytes of mol from the offset on are those of from; Panic otherwise
StepRef(mol, t) ==
    LET off  == t[1]
        from == t[2]
        to   == t[3]
    IN  IF /\ off + Len(from) <= Len(mol)
           /\ \A k \in 1 .. Len(from) : mol[off + k] = from[k]
        THEN Ok([k \in 1 .. off |-> mol[k]] \o to \o
                [k \in 1 .. (Len(mol) - off - Len(from)) |-> mol[off + Len(from) + k]])
        ELSE Panic

\* C16: for one triple (offset, from, to), apply_transformations returns
\* prefix + to + suffix if and only if the bytes [offset, offset + len(from))
\* of the molecule are from; otherwise (mismatch, range past the end) it panics.
C16_MatchInvariant ==
    (pc = "applied" /\ Len(steps) = 1) =>
        LET off     == steps[1][1]
            from    == steps[1][2]
            matches == /\ off + Len(from) <= Len(molecule)
                       /\ \A k \in 1 .. Len(from) : molecule[off + k] = from[k]
        IN  /\ applied.ok <=> matches
            /\ applied = StepRef(molecule, steps[1])

C16_Witness ==
    /\ pc = "applied"
    /\ steps = << <<1, <<72>>, <<79, 72>>>> >>
    /\ molecule = <<79, 72>>
    /\ applied = Ok(<<79, 79, 72>>)

\* the triples of ts applied one after the other from the left, each to the
\* molecule the previous one returned
RECURSIVE FoldRef(_, _, _)
FoldRef(ts, k, mol) ==
    IF k > Len(ts) THEN Ok(mol)
    ELSE LET r == StepRef(mol, ts[k])
         IN  IF r.ok THEN FoldRef(ts, k + 1, r.val) ELSE Panic

\* C17: a slice of triples is applied in slice order, each triple to the
\* molecule as the previous ones left it; the empty slice returns the
\* molecule unchanged, a mismatch at any step fails the whole call, and
\* (0,e,O), (0,O,HH), (1,H,OH) applied to "e" gives "HOH".
C17_InOrder ==
    pc = "applied" =>
        /\ applied = FoldRef(steps, 1, molecule)
        /\ steps = <<>> => applied = Ok(molecule)
        /\ (steps = TestSteps /\ molecule = ELECTRON) => applied = Ok(HOH)

C17_Witness ==
    /\ pc = "applied"
    /\ steps = TestSteps
    /\ molecule = ELECTRON
    /\ applied = Ok(HOH)

\* C18: applying a reverse step leaves the dequeued molecule as it was: all
\* through the expansion of a node current_molecule is the molecule that was
\* dequeued.
C18_ValueSemantics ==
    [][pc = "scan" =>
          /\ current_molecule' = current_molecule
          /\ current_molecule' = expanded[Len(expanded)]]_vars

C18_Witness ==
    /\ pc = "scan"
    /\ Len(tried) >= 2
    /\ current_molecule = expanded[Len(expanded)]
    /\ \E x \in heap : Len(x[3]) = Len(current_path) + 1 /\ x[2] # current_molecule

\* C19: the result of get_possible_next_steps is the same for every order in
\* which the forward index enumerates its keys, and an empty index gives the
\* empty set.
C19_OrderIndependent ==
    pc = "expanded" =>
        /\ \A o \in KeyOrders(Keys(transformations)) :
              get_possible_next_steps(transformations, o, molecule) = next_steps
        /\ transformations = <<>> => next_steps = {}

C19_Witness ==
    /\ pc = "expanded"
    /\ Len(transformations) >= 2
    /\ key_order[1] # transformations[1][1]
    /\ Cardinality(next_steps) >= 3

\* the molecules of the frontier
HeapMolecules == {x[2] : x \in heap}

\* C20: the visited set is the set of the molecules enqueued so far: the
\* target at the start, then those of the frontier and those dequeued.  No
\* molecule is in the frontier twice, none is in the frontier once dequeued,
\* none is expanded twice.
C20_Dedup ==
    pc \in {"loop", "scan", "returned", NoSolution, TimedOut} =>
        /\ target_molecule \in seen
        /\ (expanded = <<>> /\ pc = "loop") => seen = {target_molecule}
        /\ seen = HeapMolecules \cup Range(expanded) \cup
                     (IF pc \in {"returned", TimedOut} THEN {current_molecule} ELSE {})
        /\ Cardinality(HeapMolecules) = Cardinality(heap)
        /\ HeapMolecules \cap Range(expanded) = {}
        /\ pc \in {"returned", TimedOut} => current_molecule \notin HeapMolecules
        /\ \A a, b \in 1 .. Len(expanded) : expanded[a] = expanded[b] => a = b

C20_Witness ==
    /\ pc = "scan"
    /\ Len(expanded) >= 2
    /\ \E k \in 1 .. Len(tried) :
          LET r == apply_transformations(<< <<tried[k][4], tried[k][2], tried[k][3]>> >>,
                                         current_molecule)
          IN  r.ok /\ r.val \in Range(expanded)

\* C21: the priority key of every frontier entry is the length of its
\* molecule, and every dequeue removes an entry of the frontier whose
\* molecule is of minimum length among the molecules in the frontier at that
\* moment.
C21_BestFirst ==
    [][/\ \A x \in heap \cup heap' : x[1] = Len(x[2])
       /\ (pc = "loop" /\ pc' # "loop" /\ heap # {}) =>
             /\ \E x \in heap : x[2] = current_molecule' /\ x[3] = current_path'
                                /\ heap' = heap \ {x}
             /\ \A y \in heap : Len(current_molecule') <= Len(y[2])]_vars

C21_Witness ==
    /\ pc = "scan"
    /\ tried = <<>>
    /\ Len(expanded) >= 2
    /\ \E y \in heap : Len(y[2]) > Len(current_molecule)
    /\ \E y \in heap : Len(y[2]) = Len(current_molecule)

\* C22 as stated: after a match at offset i of a key of length L the scan
\* resumes at offset i + L.
C22_ResumesPastMatch ==
    [][(pc = "scan" /\ pc' = "scan" /\ Len(tried') = Len(tried) + 1) =>
          LET t == tried'[Len(tried')]
          IN  start_index' = t[4] + Len(t[2])]_vars

\* C22, amended: at a node and for one reverse rule the match offsets are
\* visited in strictly increasing order, the cursor only moves forward while
\* the rule is scanned (it is 0 again only when the next rule starts), each
\* match is the first one at or after the cursor, and after a match at
\* offset i the scan resumes at offset i + 1, whatever the length of the key.
C22_CursorAdvances ==
    [][/\ (pc = "scan" /\ pc' = "scan" /\ Len(tried') = Len(tried) + 1) =>
             LET t == tried'[Len(tried')]
             IN  /\ t[1] = rule_index /\ rule_index' = rule_index
                 /\ t[4] >= start_index
                 /\ t[4] \in Occurrences(current_molecule, t[2])
                 /\ \A off \in Occurrences(current_molecule, t[2]) :
                       off >= start_index => off >= t[4]
                 /\ start_index' = t[4] + 1
                 /\ start_index' > start_index
                 /\ \A b \in 1 .. Len(tried) : tried[b][1] = t[1] => tried[b][4] < t[4]
       /\ (pc = "scan" /\ pc' = "scan" /\ rule_index' = rule_index) =>
             start_index' >= start_index
       /\ (pc = "scan" /\ start_index' < start_index) =>
             rule_index' = rule_index + 1 /\ start_index' = 0]_vars

C22_Witness ==
    /\ pc = "scan"
    /\ \E b, c \in 1 .. Len(tried) :
          /\ tried[b][1] = tried[c][1]
          /\ Len(tried[b][2]) = 2
          /\ tried[c][4] = tried[b][4] + 1
    /\ start_index = tried[Len(tried)][4] + 1

\* the frontier's entry for the seed
SeedEntry == CHOOSE x \in heap : x[2] = ELECTRON

\* C23 as stated: once the seed is in the frontier no molecule is dequeued
\* and expanded, and the path returned is the seed's, reversed.
C23_FirstReach ==
    [][/\ ELECTRON \in HeapMolecules => ~(pc = "loop" /\ pc' = "scan")
       /\ (ELECTRON \in HeapMolecules /\ pc' = "returned") =>
             current_molecule' = ELECTRON /\ result' = Reversed(SeedEntry[3])]_vars

\* C23, amended: the search returns when the seed is dequeued, not when it
\* is produced.  While the seed waits in the frontier the only molecules
\* dequeued and expanded are of length 1 and byte-wise smaller than "e" (the
\* heap orders entries of equal length by their molecule); the search returns
\* only by dequeuing the seed, and the path returned is the one accumulated
\* for the seed's only frontier entry, reversed into forward order.
C23_SeedDequeued ==
    [][/\ (pc' = "returned" /\ pc # "returned") => ELECTRON \in HeapMolecules
       /\ ELECTRON \in HeapMolecules =>
             /\ Cardinality({x \in heap : x[2] = ELECTRON}) = 1
             /\ (pc = "loop" /\ pc' = "scan") =>
                   /\ Len(current_molecule') = 1
                   /\ StrLess(current_molecule', ELECTRON)
             /\ (pc = "loop" /\ pc' # "loop" /\ ~elapsed /\
                 \A y \in heap : y[2] # ELECTRON => EntryLess(SeedEntry, y)) =>
                   pc' = "returned"
             /\ pc' = "returned" =>
                   /\ current_molecule' = ELECTRON
                   /\ result' = Reversed(SeedEntry[3])]_vars

C23_Witness ==
    /\ pc = "scan"
    /\ tried = <<>>
    /\ ELECTRON \in HeapMolecules
    /\ current_molecule # target_molecule

\* C24: the budget is checked at a dequeue and nowhere else.  The search
\* times out only at a dequeue with the budget elapsed; a dequeue with the
\* budget elapsed always times out, the seed included; a dequeue with budget
\* left never does; an empty frontier ends in "no solution" with the budget
\* elapsed too; no step of an expansion times out.
C24_BudgetCheck ==
    [][/\ (pc' = TimedOut /\ pc # TimedOut) =>
             pc = "loop" /\ heap # {} /\ elapsed /\ heap' = heap \ {HeapPop(heap)}
       /\ (pc = "loop" /\ heap # {} /\ elapsed) => pc' = TimedOut
       /\ (pc = "loop" /\ heap # {} /\ ~elapsed /\ pc' # pc) => pc' \in {"returned", "scan"}
       /\ (pc = "loop" /\ heap = {} /\ pc' # pc) => pc' = NoSolution
       /\ pc = "scan" => pc' \in {"scan", "loop"}]_vars

C24_Witness ==
    /\ pc = TimedOut
    /\ current_molecule = ELECTRON
    /\ expanded # <<>>

\* every rule's replacement is at least as long as its source
NonShrinking(m) == \A r \in RuleSet(m) : Len(r[2]) >= Len(r[1])

\* every rule has a non-empty source and a non-empty replacement
NonEmptyRules(m) == \A r \in RuleSet(m) : r[1] # <<>> /\ r[2] # <<>>

\* C25: when no rule's replacement is shorter than its source, every molecule
\* enqueued is no longer than the molecule it was derived from, and every
\* molecule of the frontier and of the visited set is no longer than the target.
C25_NeverLonger ==
    [][NonShrinking(transformations) =>
          /\ \A x \in heap' \ heap : Len(x[2]) <= Len(current_molecule)
          /\ \A x \in heap \cup heap' : Len(x[2]) <= Len(target_molecule)
          /\ \A m \in seen \cup seen' : Len(m) <= Len(target_molecule)]_vars

C25_Witness ==
    /\ NonShrinking(transformations)
    /\ pc = "scan"
    /\ \E x \in heap : Len(x[3]) = Len(current_path) + 1 /\ Len(x[2]) < Len(current_molecule)
    /\ \E x \in heap : Len(x[3]) = Len(current_path) + 1 /\ Len(x[2]) = Len(current_molecule)

\* C27: with non-empty rules none of which shortens a molecule, the search,
\* left to run without the timeout, ends with a returned path or with "no
\* solution found".  With the one rule OO => O and a target that holds an O
\* it never ends that way: the frontier is never found empty, and every
\* reverse step makes the molecule one byte longer.
C27_Terminates ==
    /\ (NonEmptyRules(transformations) /\ NonShrinking(transformations)) =>
          <>(pc \in {"returned", NoSolution})
    /\ []((transformations = MultiMapOf(<<RunUniverse[5]>>) /\ 79 \in Range(target_molecule)) =>
             /\ pc \notin {"returned", NoSolution}
             /\ pc = "loop" => heap # {} /\ Cardinality(seen) > Len(expanded)
             /\ \A x \in heap : Len(x[2]) = Len(target_molecule) + Len(x[3]))

C27_Witness ==
    /\ NonEmptyRules(transformations)
    /\ NonShrinking(transformations)
    /\ {OtherRules[1], RunUniverse[4]} \subseteq RuleSet(transformations)
    /\ pc = NoSolution
    /\ Len(expanded) >= 3

\* a frontier entry (molecule, path) leads back to the target: the steps of
\* path, taken last pushed first as forward steps (offset, source,
\* replacement) of rules of the index, apply one after the other to molecule
\* and give the target; only the target has the empty path
LeadsToTarget(x) ==
    /\ FoldRef(Reversed(x[3]), 1, x[2]) = Ok(target_molecule)
    /\ apply_transformations(Reversed(x[3]), x[2]) = Ok(target_molecule)
    /\ \A k \in 1 .. Len(x[3]) : <<x[3][k][2], x[3][k][3]>> \in RuleSet(transformations)
    /\ x[3] = <<>> <=> x[2] = target_molecule

\* C26: every frontier entry leads back to the target (LeadsToTarget): the
\* entries the search starts with do, and so does every entry at the step
\* that adds it to the frontier (an entry never changes while it waits).  The
\* path of an added entry is the path of the node being expanded and one
\* step more, the step that leads from the entry's molecule to that node's,
\* so the length of a path is the number of reverse steps from the target.
\* The entry dequeued is one of the frontier, molecule and path.
C26_FrontierPaths ==
    [][/\ (pc = "loop" /\ expanded = <<>>) => \A x \in heap : LeadsToTarget(x)
       /\ \A x \in heap' \ heap :
             /\ LeadsToTarget(x)
             /\ pc = "scan"
             /\ Len(x[3]) = Len(current_path) + 1
             /\ SubSeq(x[3], 1, Len(current_path)) = current_path
             /\ FoldRef(<<x[3][Len(x[3])]>>, 1, x[2]) = Ok(current_molecule)
       /\ (pc = "loop" /\ pc' # "loop" /\ heap # {}) =>
             <<Len(current_molecule'), current_molecule', current_path'>> \in heap]_vars

C26_Witness ==
    /\ pc = "scan"
    /\ \E x \in heap :
          /\ Len(x[3]) >= 3
          /\ x[3][1][1] > 0
          /\ x[3][Len(x[3])][1] > 0
          /\ \E j, k \in 1 .. Len(x[3]) : x[3][j][2] # x[3][k][2]

\* the best-first search on the rule set R, which has no order: the node of
\* least (length, bytes) is taken from the frontier of (molecule, depth)
\* pairs, and its one-step reverse successors not yet visited are added one
\* step deeper.  The depth of the seed when it is taken, -1 when the
\* frontier empties.
RECURSIVE BestFirstRef(_, _, _)
BestFirstRef(R, frontier, visited) ==
    IF frontier = {} THEN -1
    ELSE LET top  == CHOOSE x \in frontier : \A y \in frontier \ {x} :
                         \/ Len(x[1]) < Len(y[1])
                         \/ Len(x[1]) = Len(y[1]) /\ StrLess(x[1], y[1])
         IN  IF top[1] = ELECTRON THEN top[2]
             ELSE LET kids == ReverseSteps(R, top[1]) \ visited
                  IN  BestFirstRef(R, (frontier \ {top}) \cup {<<k, top[2] + 1>> : k \in kids},
                                   visited \cup kids)

RefSteps(R, target) == BestFirstRef(R, {<<target, 0>>}, {target})

\* C28: the number of steps returned is a function of the rule set and of
\* the target alone: whatever the order in which the forward index
\* enumerates its keys, a search that ends within its budget returns a path
\* of RefSteps steps, or fails with "no solution found" exactly when the
\* order-free search fails.
C28_StepCountFixed ==
    [][(pc' # pc /\ pc' \in {"returned", NoSolution}) =>
          LET n == RefSteps(RuleSet(transformations), target_molecule)
          IN  /\ pc' = "returned" => Len(result') = n
              /\ pc' = NoSolution => n = -1]_vars

C28_Witness ==
    /\ pc = "returned"
    /\ Len(result) >= 3
    /\ \E o \in KeyOrders(Keys(transformations)) :
          ReverseIndex(transformations, o) # reverse_transformations
    /\ \E i \in 1 .. (Len(reverse_transformations) - 1) :
          /\ Len(reverse_transformations[i][1]) = Len(reverse_transformations[i + 1][1])
          /\ StrLess(reverse_transformations[i + 1][2], reverse_transformations[i][2])

\* C29: when the expansion of a node ends, every occurrence of every reverse
\* rule's replacement in the node's molecule, overlapping occurrences
\* included, has been tried, and every molecule one reverse step away from
\* the node is in the visited set.
C29_Exhaustive ==
    [][(pc = "scan" /\ pc' = "loop") =>
          LET rt == reverse_transformations
          IN  /\ current_molecule = expanded[Len(expanded)]
              /\ ReverseSteps(RuleSet(transformations), current_molecule) \subseteq seen'
              /\ \A a \in 1 .. Len(rt) :
                    \A off \in Occurrences(current_molecule, rt[a][1]) :
                        /\ \E c \in 1 .. Len(tried) : tried[c] = <<a, rt[a][1], rt[a][2], off>>
                        /\ replace_range(current_molecule, off, off + Len(rt[a][1]), rt[a][2])
                              \in seen']_vars

C29_Witness ==
    /\ pc = "loop"
    /\ \E b, c \in 1 .. Len(tried) :
          /\ tried[b][1] = tried[c][1]
          /\ Len(tried[b][2]) = 2
          /\ tried[c][4] = tried[b][4] + 1
          /\ LET mol == expanded[Len(expanded)]
                 m1  == replace_range(mol, tried[b][4], tried[b][4] + 2, tried[b][3])
                 m2  == replace_range(mol, tried[c][4], tried[c][4] + 2, tried[c][3])
             IN  m1 # m2 /\ {m1, m2} \subseteq seen

\* C30: at every dequeue, of the frontier's entries whose molecules have the
\* length of the one dequeued, the one dequeued is the smallest byte-wise;
\* so while "H" or "O" is in the frontier the seed is not the one dequeued.
C30_TieBreak ==
    [][(pc = "loop" /\ pc' # "loop" /\ heap # {}) =>
          /\ \A y \in heap :
                Len(y[2]) = Len(current_molecule') =>
                    y[2] = current_molecule' \/ StrLess(current_molecule', y[2])
          /\ (ELECTRON \in HeapMolecules /\ HeapMolecules \cap {<<72>>, <<79>>} # {}) =>
                /\ current_molecule' \in {<<72>>, <<79>>}
                /\ ~elapsed => pc' = "scan"]_vars

C30_Witness ==
    /\ pc = "scan"
    /\ tried = <<>>
    /\ current_molecule = <<72>>
    /\ ELECTRON \in HeapMolecules
    /\ \A y \in heap : y[2] = ELECTRON \/ Len(y[2]) > 1
    /\ Len(expanded) >= 2

=============================================================================
